---- MODULE Spec2Model ----
(***************************************************************************)
(* Model of the stealth browser runner (src/src/browser/stealthRunner.ts): *)
(* runStealth and the helpers it awaits, as one sequential state machine.  *)
(* The page, the browser and the file system are the environment: every    *)
(* value the code reads from them is drawn from a small set with \E.       *)
(*                                                                         *)
(* Time is counted in units of 100 ms.  A wait loop keeps the time it has  *)
(* slept since it computed its deadline; `Date.now() < deadline` is        *)
(* `elapsed < timeout`.  Timeouts at or beyond Horizon (the defaults) are  *)
(* never reached by the counts of this model and are not tracked.          *)
(***************************************************************************)
EXTENDS Integers, Sequences, FiniteSets, TLC

(* ------------------------------ bounds --------------------------------- *)
\* longest answer text the page shows, in chunks
MaxLen == 1
\* largest number of files given to assembleBrowserPrompt
MaxFiles == 2
\* largest number of reply-bearing elements the page shows
MaxMsgs == 2
\* stability count at which the model lets the overall deadline pass
MaxStable == 21
\* with both the stability count and the empty-tick count positive, the model
\* lets the overall deadline pass once their sum is above this
MaxMixed == 1
\* timeouts at or beyond this many units are not tracked
Horizon == 101
\* number of overlay selectors the sweep goes through
MaxSelectors == 2
\* number of signals the process receives
MaxSignals == 3
\* largest number of tabs the remote browser has before the connection
MaxTabs == 3

(* ------------------------- program constants --------------------------- *)
CleanThreshold == 3
StableThreshold == 20
EmptyThreshold == 300
CleanPause == 5
ClickPause == 30
TitlePause == 10
PromptPause == 5
ArrivalPause == 5
AnswerPause == 2
OverlayPasses == 3
OverlayPassPause == 2
OverlayClickPause == 5
ReentryTimeout == 100
DefaultCfTimeout == 900
DefaultInputTimeout == 600
DefaultAnswerTimeout == 9000

(* ------------------------------ helpers -------------------------------- *)
Min(a, b) == IF a < b THEN a ELSE b

\* Strings the code trims or tests are sequences of one-character strings.
IsSpace(c) == c = " "

RECURSIVE TrimStart(_)
TrimStart(s) ==
  IF s # <<>> /\ IsSpace(Head(s)) THEN TrimStart(Tail(s)) ELSE s

RECURSIVE TrimEnd(_)
TrimEnd(s) ==
  IF s # <<>> /\ IsSpace(s[Len(s)]) THEN TrimEnd(SubSeq(s, 1, Len(s) - 1)) ELSE s

\* a trim that trims nothing
TrimNothing(s) == s

\* String.prototype.trim
Trim(s) == TrimEnd(TrimStart(s))

\* !currentVal || currentVal.trim().length === 0   (lines 134, 144)
IsBlank(s) == Len(Trim(s)) = 0

\* a loop whose deadline moves along with the clock
AdvanceNever(el, w, timeout) == el

\* the time a loop has slept, after sleeping w more units
Advance(el, w, timeout) == IF timeout >= Horizon THEN el ELSE Min(el + w, timeout)

\* Date.now() < deadline, negated
DeadlinePassed(el, timeout) == el >= timeout

(* ------------------------------- state --------------------------------- *)
VARIABLES
  pc,                      \* position in runStealth and its helpers
  options,                 \* the BrowserRunOptions given to runStealth
  promptText,              \* line 12
  error,                   \* the failure runStealth threw, "" while none
  tempProfile,             \* the temporary profile directory: none, exists, removed
  browser,                 \* the browser context: none, launched, attached, closed
  events,                  \* the page and system actions issued so far, in order
  cfTimeout,               \* solveCloudflare: timeoutMs
  cfElapsed,               \* solveCloudflare: time slept since its deadline was set
  consecutiveCleanChecks,  \* solveCloudflare: line 215
  cf,                      \* solveCloudflare: what its last tick detected and did
  cfRet,                   \* solveCloudflare: its caller
  wfpElapsed,              \* waitForPrompt: time slept since its deadline was set
  wfpTick,                 \* waitForPrompt: what its last tick did
  wfpCf,                   \* waitForPrompt: line 297, whether its last detection saw a challenge
  promptHandle,            \* line 110
  surface,                 \* the element behind promptHandle, as it was when line 110 took it
  inputVal,                \* the page: the text the input surface holds
  currentVal,              \* line 132 / 143
  existingAssistantCount,  \* line 156
  send,                    \* lines 157-186: the send control as the run saw it
  lastCount,               \* waitForNewAssistantMessage: the count its last poll read
  waElapsed,               \* waitForAnswer: time slept since the current deadline was set
  lastText,                \* waitForAnswer: line 321
  stableCount,             \* waitForAnswer: line 322
  emptyLoops,              \* waitForAnswer: line 323
  sample,                  \* waitForAnswer: what its last tick sampled
  exitKind,                \* waitForAnswer: how the streaming loop ended
  answer,                  \* line 188: what waitForAnswer returned
  result,                  \* the BrowserRunResult returned
  upload,                  \* uploadAttachmentViaDataTransfer: the call's position, locals and log
  bundle,                  \* assembleBrowserPrompt: the call's inputs, position and artifacts
  overlay,                 \* dismissOverlays: the call's position, counters and last visit
  hooks,                   \* registerTerminationHooks: the listeners, the handler's progress
  remote                   \* connectToRemoteChrome / closeRemoteChromeTarget: the call and the tabs

vars == <<pc, options, promptText, error, tempProfile, browser, events,
          cfTimeout, cfElapsed, consecutiveCleanChecks, cf, cfRet, wfpElapsed,
          wfpTick, wfpCf, promptHandle, surface, inputVal, currentVal, existingAssistantCount, send, lastCount,
          waElapsed, lastText, stableCount, emptyLoops, sample, exitKind, answer, result,
          upload, bundle, overlay, hooks, remote>>

runVars == <<options, promptText, tempProfile, browser, upload, bundle, overlay, hooks, remote>>
cfVars == <<cfTimeout, cfElapsed, consecutiveCleanChecks, cf, cfRet>>
wfpVars == <<wfpElapsed, wfpTick, wfpCf>>
inputVars == <<promptHandle, surface, inputVal, currentVal, existingAssistantCount, send>>
answerVars == <<lastCount, waElapsed, lastText, stableCount, emptyLoops, sample, exitKind, answer>>

\* options.prompt: absent, or a string
Prompts ==
  { [given |-> FALSE, text |-> <<>>],
    [given |-> TRUE, text |-> <<>>],
    [given |-> TRUE, text |-> <<" ">>],
    [given |-> TRUE, text |-> <<" ", "h", " ">>] }

\* config.inputTimeoutMs and config.timeoutMs: 0 stands for "not given"
InputTimeouts == {20}
AnswerTimeouts == {2}

Configs ==
  [chromeProfilePath : BOOLEAN, keepBrowser : BOOLEAN,
   inputTimeoutMs : InputTimeouts, timeoutMs : AnswerTimeouts]

\* config.x ?? d
OrDefault(x, d) == IF x = 0 THEN d ELSE x

NoDetection ==
  [challenge |-> FALSE, title |-> FALSE, frame |-> FALSE, frameBox |-> FALSE,
   pointer |-> FALSE, outcome |-> "none"]
NoSample == [text |-> <<>>, isGenerating |-> FALSE, isDone |-> FALSE]
\* no element taken, or its state no longer kept
NoSurface == [visible |-> FALSE, enabled |-> FALSE, box |-> "none"]
NoSend == [exists |-> FALSE, disabled |-> FALSE, woke |-> "no", action |-> "none"]
NoAnswer == [text |-> <<>>]
NoResult == [returned |-> FALSE, answerText |-> <<>>]

\* no call of assembleBrowserPrompt under way
NoBundle ==
  [pc |-> "idle", system |-> [given |-> FALSE, text |-> <<>>], files |-> <<>>,
   markdown |-> <<>>, composerText |-> <<>>, attachmentFilePath |-> "undefined",
   written |-> <<>>]

\* no call of uploadAttachmentViaDataTransfer under way
NoUpload ==
  [pc |-> "idle", dom |-> FALSE, fileInputSelector |-> "none", injections |-> 0,
   success |-> FALSE, checks |-> 0, elapsed |-> 0, log |-> <<>>, error |-> ""]

\* no call of dismissOverlays under way
NoOverlay ==
  [pc |-> "idle", i |-> 0, visited |-> <<>>, clicks |-> 0,
   last |-> [query |-> "none", visible |-> "unasked", clicked |-> FALSE, caught |-> FALSE]]

\* registerTerminationHooks not called
NoHooks ==
  [listening |-> FALSE, keepBrowser |-> FALSE, handling |-> FALSE, signal |-> "none",
   delivered |-> <<>>, unheard |-> 0, async |-> "none", killFailed |-> FALSE,
   kills |-> 0, removes |-> 0, exits |-> 0, exitCode |-> 0]

\* no call of connectToRemoteChrome under way
NoRemote ==
  [pc |-> "idle", targetUrl |-> FALSE, verbose |-> FALSE, tabs |-> 0, created |-> FALSE,
   createdOpen |-> FALSE, targetId |-> "undefined", client |-> "none", closeCalls |-> 0,
   log |-> <<>>]

\* the variables of runStealth
stealthVars ==
  <<pc, options, promptText, error, tempProfile, browser, events, cfVars, wfpVars,
    inputVars, answerVars, result>>

\* no run of runStealth under way yet, its options drawn from optionSet
RunStart(optionSet) ==
  /\ pc = "start"
  /\ options \in optionSet
  /\ promptText = <<>>
  /\ error = ""
  /\ tempProfile = "none"
  /\ browser = "none"
  /\ events = <<>>
  /\ cfTimeout = 0
  /\ cfElapsed = 0
  /\ consecutiveCleanChecks = 0
  /\ cf = NoDetection
  /\ cfRet = "main"
  /\ wfpElapsed = 0
  /\ wfpTick = "none"
  /\ wfpCf = [challenge |-> FALSE]
  /\ promptHandle = "none"
  /\ surface = NoSurface
  /\ inputVal = <<>>
  /\ currentVal = <<>>
  /\ existingAssistantCount = 0
  /\ send = NoSend
  /\ lastCount = 0
  /\ waElapsed = 0
  /\ lastText = <<>>
  /\ stableCount = 0
  /\ emptyLoops = 0
  /\ sample = NoSample
  /\ exitKind = "none"
  /\ answer = NoAnswer
  /\ result = NoResult

\* nothing but runStealth under way
OthersIdle ==
  /\ overlay = NoOverlay
  /\ hooks = NoHooks
  /\ remote = NoRemote

Init ==
  /\ RunStart([prompt : Prompts, config : Configs])
  /\ upload = NoUpload
  /\ bundle = NoBundle
  /\ OthersIdle

\* the locals of a solveCloudflare call that has returned are dropped
DropCf ==
  /\ cfTimeout' = 0
  /\ cfElapsed' = 0
  /\ consecutiveCleanChecks' = 0
  /\ cf' = NoDetection
  /\ cfRet' = "main"

\* the locals of a waitForPrompt call that has returned are dropped
DropWfp ==
  /\ wfpElapsed' = 0
  /\ wfpTick' = "none"
  /\ wfpCf' = [challenge |-> FALSE]

\* a throw that leaves runStealth
Throw(e) ==
  /\ pc' = "failed"
  /\ error' = e

(* --------------------------- runStealth: setup -------------------------- *)
\* lines 12-19: the prompt check, then the profile directory
CheckPrompt ==
  /\ pc = "start"
  /\ LET text == IF options.prompt.given THEN Trim(options.prompt.text) ELSE <<>>
     IN  /\ promptText' = text
         /\ IF text = <<>>
            THEN /\ Throw("PromptRequired")
                 /\ UNCHANGED <<tempProfile, events>>
            ELSE /\ pc' = "launch"
                 /\ error' = error
                 /\ IF options.config.chromeProfilePath
                    THEN UNCHANGED <<tempProfile, events>>
                    ELSE /\ tempProfile' = "exists"
                         /\ events' = Append(events, "mkdtemp")
  /\ UNCHANGED <<upload, bundle, overlay, hooks, remote, options, browser, cfVars, wfpVars, inputVars, answerVars, result>>

\* lines 24-76: attach over CDP when PLAYWRIGHT_CDP_URL answers, else launch
Launch ==
  /\ pc = "launch"
  /\ \E how \in {"attached", "launched", "throws"} :
       IF how = "throws"
       THEN /\ Throw("LaunchFailed")
            /\ UNCHANGED <<browser, events>>
       ELSE /\ pc' = "navigate"
            /\ error' = error
            /\ browser' = how
            /\ events' = Append(events, IF how = "attached" THEN "attach" ELSE "launch")
  /\ UNCHANGED <<upload, bundle, overlay, hooks, remote, options, promptText, tempProfile, cfVars, wfpVars, inputVars,
                 answerVars, result>>

\* the call solveCloudflare(page, logger, timeoutMs): lines 214-215
EnterSolveCloudflare(ret, timeout) ==
  /\ pc' = "cf_loop"
  /\ cfTimeout' = timeout
  /\ cfElapsed' = 0
  /\ consecutiveCleanChecks' = 0
  /\ cf' = NoDetection
  /\ cfRet' = ret

\* lines 78-93: open the page (a failed goto is logged), then the first
\* challenge resolution
Navigate ==
  /\ pc = "navigate"
  /\ events' = Append(events, "goto")
  /\ EnterSolveCloudflare("main", OrDefault(options.config.inputTimeoutMs, DefaultCfTimeout))
  /\ UNCHANGED <<runVars, error, wfpVars, inputVars, answerVars, result>>

(* --------------------------- detectCloudflare --------------------------- *)
\* page titles, as sequences of words
Titles == { <<"Just", "a", "moment">>, <<"ChatGPT">> }

LowerWord(w) ==
  CASE w = "Just" -> "just"
    [] w = "ChatGPT" -> "chatgpt"
    [] OTHER -> w

\* String.prototype.toLowerCase
ToLowerCase(t) == [i \in 1..Len(t) |-> LowerWord(t[i])]

\* title.includes('just a moment')
IsTitleMatch(title) ==
  \E i \in 1..Len(title) :
     /\ i + 2 <= Len(title)
     /\ SubSeq(title, i, i + 2) = <<"just", "a", "moment">>

\* lines 244-264.  frame: a challenge-hosting frame is among the page's frames;
\* frameEval: what frame.evaluate gives, "box", "null" or "throws" (caught).
DetectCloudflare(title, frame, frameEval) ==
  LET frameBox == frame /\ frameEval = "box"
      isTitleMatch == IsTitleMatch(ToLowerCase(title))
  IN  [challenge |-> isTitleMatch \/ frameBox, title |-> isTitleMatch,
       frame |-> frame, frameBox |-> frameBox]

FrameEvals == {"box", "null", "throws"}

(* ---------------------------- solveCloudflare --------------------------- *)
\* the return of solveCloudflare to its caller
CfReturn ==
  IF cfRet = "main"
  THEN /\ pc' = "overlays"
       /\ UNCHANGED wfpVars
  ELSE /\ pc' = "wfp_loop"
       /\ wfpElapsed' =
            Advance(wfpElapsed, cfElapsed,
                    OrDefault(options.config.inputTimeoutMs, DefaultInputTimeout))
       /\ UNCHANGED <<wfpTick, wfpCf>>

\* the return condition of line 221
CleanEnough(n) == n > CleanThreshold

\* a resolver that clicks on any detected challenge
ShouldClickOnChallenge(d) == d.challenge

\* line 227: if (cf.frameBox)
ShouldClick(d) == d.frameBox

\* one pass of the loop of lines 217-240, or its end at line 241
SolveCloudflareTick ==
  /\ pc = "cf_loop"
  /\ IF DeadlinePassed(cfElapsed, cfTimeout)
     THEN /\ cf' = [cf EXCEPT !.outcome = "timeout", !.pointer = FALSE]
          /\ CfReturn
          /\ UNCHANGED <<error, cfElapsed, consecutiveCleanChecks>>
     ELSE \E title \in Titles \cup {<<"throws">>}, frame \in BOOLEAN, frameEval \in FrameEvals :
            IF title = <<"throws">>
            THEN /\ Throw("PageError")
                 /\ UNCHANGED <<cfElapsed, consecutiveCleanChecks, cf, wfpVars>>
            ELSE LET d == DetectCloudflare(title, frame, frameEval)
                     seen == [challenge |-> d.challenge, title |-> d.title,
                              frame |-> d.frame, frameBox |-> d.frameBox]
                 IN  /\ error' = error
                     /\ IF ~d.challenge
                        THEN /\ consecutiveCleanChecks' = consecutiveCleanChecks + 1
                             /\ IF CleanEnough(consecutiveCleanChecks + 1)
                                THEN /\ cf' = seen @@ [pointer |-> FALSE, outcome |-> "clean"]
                                     /\ CfReturn
                                     /\ UNCHANGED cfElapsed
                                ELSE /\ cf' = seen @@ [pointer |-> FALSE, outcome |-> "none"]
                                     /\ cfElapsed' = Advance(cfElapsed, CleanPause, cfTimeout)
                                     /\ UNCHANGED <<pc, wfpVars>>
                        ELSE /\ consecutiveCleanChecks' = 0
                             /\ cf' = seen @@ [pointer |-> ShouldClick(d), outcome |-> "none"]
                             /\ cfElapsed' =
                                  Advance(cfElapsed,
                                          IF ShouldClick(d) THEN ClickPause ELSE TitlePause,
                                          cfTimeout)
                             /\ UNCHANGED <<pc, wfpVars>>
  /\ UNCHANGED <<runVars, events, cfTimeout, cfRet, inputVars, answerVars, result>>

(* ---------------------------- dismissOverlays --------------------------- *)
\* lines 266-282: the time a sweep that clicked `clicks` overlays takes
SweepTime(clicks) == OverlayPasses * OverlayPassPause + clicks * OverlayClickPause

\* line 94 (and the model picker of lines 96-98, which swallows every error
\* and touches nothing modelled here)
DismissOverlays ==
  /\ pc = "overlays"
  /\ pc' = "locate"
  /\ events' = Append(events, "overlays")
  /\ DropCf
  /\ UNCHANGED <<runVars, error, wfpVars, inputVars, answerVars, result>>

(* ----------------------- locating the input surface --------------------- *)
\* lines 100-108: page.waitForSelector; its timeout is caught and starts
\* waitForPrompt
WaitForSelector ==
  /\ pc = "locate"
  /\ \E visible \in BOOLEAN :
       IF visible
       THEN /\ pc' = "handle"
            /\ UNCHANGED wfpVars
       ELSE /\ pc' = "wfp_loop"
            /\ wfpElapsed' = 0
            /\ wfpTick' = "none"
            /\ wfpCf' = [challenge |-> FALSE]
  /\ UNCHANGED <<runVars, error, events, cfVars, inputVars, answerVars, result>>

\* lines 290-295: a handle the generic wait accepts
Usable(exists, visible, enabled, box) ==
  exists /\ visible /\ enabled /\ box = "ok"

\* a wait that sweeps the overlays whatever it detected
StallActionSweep(d) == "sweep"

\* lines 298-305: what a tick does that found no usable input
StallAction(d) == IF d.challenge THEN "resolver" ELSE "sweep"

\* one pass of the loop of lines 288-306, or the throw of line 307
WaitForPromptTick ==
  /\ pc = "wfp_loop"
  /\ LET timeout == OrDefault(options.config.inputTimeoutMs, DefaultInputTimeout)
     IN  IF DeadlinePassed(wfpElapsed, timeout)
         THEN /\ Throw("PromptNotVisible")
              /\ DropCf
              /\ UNCHANGED wfpVars
         ELSE \E exists \in BOOLEAN, visible \in BOOLEAN, enabled \in BOOLEAN,
                 box \in {"none", "zero", "ok"} :
                IF Usable(exists, visible, enabled, box)
                THEN /\ pc' = "handle"
                     /\ error' = error
                     /\ wfpTick' = "found"
                     /\ wfpCf' = [challenge |-> FALSE]
                     /\ DropCf
                     /\ UNCHANGED wfpElapsed
                ELSE \E title \in Titles \cup {<<"throws">>}, frame \in BOOLEAN,
                        frameEval \in FrameEvals, clicks \in 0..1 :
                       IF title = <<"throws">>
                       THEN /\ Throw("PageError")
                            /\ DropCf
                            /\ UNCHANGED wfpVars
                       ELSE LET d == DetectCloudflare(title, frame, frameEval)
                            IN  /\ wfpCf' = [challenge |-> d.challenge]
                                /\ IF StallAction(d) = "resolver"
                                   THEN /\ EnterSolveCloudflare("prompt", ReentryTimeout)
                                        /\ error' = error
                                        /\ wfpTick' = "resolver"
                                        /\ UNCHANGED wfpElapsed
                                   ELSE /\ wfpTick' = "sweep"
                                        /\ wfpElapsed' =
                                             Advance(wfpElapsed,
                                                     SweepTime(clicks) + PromptPause, timeout)
                                        /\ DropCf
                                        /\ UNCHANGED <<pc, error>>
  /\ UNCHANGED <<runVars, events, inputVars, answerVars, result>>

\* line 110: page.$(promptSelector) ?? page.$(INPUT_SELECTORS.join(','))
HandleOf(specific, generic) ==
  IF specific THEN "specific" ELSE IF generic THEN "generic" ELSE "none"

\* a check that never finds the handle missing
HandleMissingNever(handle) == FALSE

\* line 111: !promptHandle
HandleMissing(handle) == handle = "none"

\* the states an element of the page can be in: isVisible(), isEnabled(), and
\* boundingBox() giving null, a box without area, or a box with area
ElementStates == [visible : BOOLEAN, enabled : BOOLEAN, box : {"none", "zero", "ok"}]

\* The states the element line 110 takes can be in.  found: waitForPrompt
\* returned (its handle is discarded at line 107); otherwise waitForSelector
\* saw '#prompt-textarea' visible, which says nothing about isEnabled().  The
\* query of line 110 checks nothing: '#prompt-textarea' comes first whenever
\* it is in the DOM, in whatever state.
SurfaceStates(found, handle) ==
  CASE handle = "none" -> {NoSurface}
    [] handle = "specific" /\ ~found ->
         {e \in ElementStates : e.visible /\ e.box = "ok"}
    [] handle = "generic" /\ found ->
         {e \in ElementStates : Usable(TRUE, e.visible, e.enabled, e.box)}
    [] OTHER -> ElementStates

\* lines 110-120: take the handle, scroll to it and click it
LocateAndFocus ==
  /\ pc = "handle"
  /\ \E specific \in BOOLEAN, generic \in BOOLEAN :
       LET handle == HandleOf(specific, generic)
       IN  /\ promptHandle' = handle
           /\ surface' \in SurfaceStates(wfpTick = "found", handle)
           /\ IF HandleMissing(handle)
              THEN /\ Throw("PromptHandleNotFound")
                   /\ UNCHANGED events
              ELSE /\ pc' = "paste"
                   /\ error' = error
                   /\ events' = Append(events, "focus")
  /\ DropWfp
  /\ UNCHANGED <<runVars, cfVars, inputVal, currentVal, existingAssistantCount,
                 send, answerVars, result>>

(* ------------------------------ input delivery -------------------------- *)
\* what a paste can leave in the input surface
PasteOutcomes(text) == { <<>>, <<" ">>, text }

\* lines 122-132: clipboard paste (a throw is logged), then the first read-back;
\* the record of the element's state at line 110 is dropped
Paste ==
  /\ pc = "paste"
  /\ events' = Append(events, "paste")
  /\ \E threw \in BOOLEAN, landed \in PasteOutcomes(promptText) :
       /\ inputVal' = IF threw THEN inputVal ELSE landed
       /\ currentVal' = inputVal'
  /\ pc' = "type"
  /\ surface' = NoSurface
  /\ UNCHANGED <<runVars, error, cfVars, wfpVars, promptHandle, existingAssistantCount,
                 send, answerVars, result>>

\* a guard that always falls through to the next strategy
NeedsNextStrategyAlways(val) == TRUE

\* the guard of lines 134 and 144
NeedsNextStrategy(val) == IsBlank(val)

\* lines 134-143: typing when the read-back is blank (a throw is logged), then
\* the second read-back
TypeStep ==
  /\ pc = "type"
  /\ IF NeedsNextStrategy(currentVal)
     THEN /\ events' = Append(events, "type")
          /\ \E typed \in {<<>>, promptText} : inputVal' = inputVal \o typed
     ELSE UNCHANGED <<events, inputVal>>
  /\ currentVal' = inputVal'
  /\ pc' = "inject"
  /\ UNCHANGED <<runVars, error, cfVars, wfpVars, promptHandle, surface, existingAssistantCount,
                 send, answerVars, result>>

\* lines 144-154: direct injection when the second read-back is blank; the
\* $eval is not in a try
InjectStep ==
  /\ pc = "inject"
  /\ IF NeedsNextStrategy(currentVal)
     THEN /\ events' = Append(events, "inject")
          /\ \E threw \in BOOLEAN :
               IF threw
               THEN /\ Throw("PageError")
                    /\ UNCHANGED inputVal
               ELSE /\ pc' = "submit"
                    /\ error' = error
                    /\ inputVal' = promptText
     ELSE /\ pc' = "submit"
          /\ UNCHANGED <<error, events, inputVal>>
  /\ UNCHANGED <<runVars, cfVars, wfpVars, promptHandle, surface, currentVal,
                 existingAssistantCount, send, answerVars, result>>

(* -------------------------------- submission ---------------------------- *)
\* the guard of line 162
ShouldWake(isDisabled, val) == isDisabled /\ ~IsBlank(val)

\* a decision that clicks whatever the last disabled check said
SubmitDecisionClickAnyway(exists, disabled, wake, val) ==
  LET woke == exists /\ ShouldWake(disabled, val)
      isDisabled == IF woke /\ wake = "enabled" THEN FALSE ELSE disabled
  IN  [exists |-> exists,
       disabled |-> IF exists THEN isDisabled ELSE FALSE,
       woke |-> IF woke THEN wake ELSE "no",
       action |-> IF exists THEN "click" ELSE "enter"]

\* lines 159-186: what the run does with the send control.  disabled: the
\* first isDisabled(); wake: how the wake sequence ends, "throws", or the
\* re-check reporting "enabled" or "disabled".
SubmitDecision(exists, disabled, wake, val) ==
  LET woke == exists /\ ShouldWake(disabled, val)
      isDisabled == IF woke /\ wake = "enabled" THEN FALSE ELSE disabled
  IN  [exists |-> exists,
       disabled |-> IF exists THEN isDisabled ELSE FALSE,
       woke |-> IF woke THEN wake ELSE "no",
       action |-> IF exists /\ ~isDisabled THEN "click" ELSE "enter"]

\* a submission that samples the baseline count after the submission action
SubmissionEventsCountLast(d) ==
  (IF d.woke # "no" THEN <<"wake">> ELSE <<>>) \o <<d.action>> \o <<"count">>

\* lines 156-186 in order: countAssistantMessages, the wake sequence when it
\* is attempted, the click or the Enter
SubmissionEvents(d) ==
  <<"count">> \o (IF d.woke # "no" THEN <<"wake">> ELSE <<>>) \o <<d.action>>

\* lines 156-188: the baseline count, the submission, the call of
\* waitForAnswer.  The page calls of lines 156-160 are outside any try, and so
\* are the click and the Enter: fails tells whether one of them rejects,
\* "before" the submission action or in the "action" itself.
Submit ==
  /\ pc = "submit"
  /\ \E count \in 0..(MaxMsgs - 1), exists \in BOOLEAN, disabled \in BOOLEAN,
        wake \in {"throws", "enabled", "disabled"}, fails \in {"no", "before", "action"} :
       LET d == SubmitDecision(exists, disabled, wake, currentVal)
       IN  IF fails = "before"
           THEN /\ Throw("PageError")
                /\ events' = Append(events, "count")
                /\ UNCHANGED <<existingAssistantCount, send>>
           ELSE /\ existingAssistantCount' = count
                /\ send' = d
                /\ events' = events \o SubmissionEvents(d)
                /\ IF fails = "action"
                   THEN Throw("PageError")
                   ELSE pc' = "wfa_arrival" /\ error' = error
  /\ waElapsed' = 0
  /\ lastCount' = 0
  /\ UNCHANGED <<runVars, cfVars, wfpVars, promptHandle, surface, inputVal, currentVal,
                 lastText, stableCount, emptyLoops, sample, exitKind, answer, result>>

(* ------------------------------- waitForAnswer -------------------------- *)
AnswerTimeout == OrDefault(options.config.timeoutMs, DefaultAnswerTimeout)

\* an arrival test that accepts an unchanged count
HasArrivedOrSame(count, initialCount) == count >= initialCount

\* line 415
HasArrived(count, initialCount) == count > initialCount

\* one pass of the loop of lines 413-417, or the throw of line 418; on arrival
\* lines 321-324 start the streaming loop
ArrivalTick ==
  /\ pc = "wfa_arrival"
  /\ IF DeadlinePassed(waElapsed, AnswerTimeout)
     THEN /\ Throw("AnswerDidNotArrive")
          /\ UNCHANGED <<lastCount, waElapsed>>
     ELSE \E count \in (0..MaxMsgs) \cup {-1} :
            IF count = -1
            THEN /\ Throw("PageError")
                 /\ UNCHANGED <<lastCount, waElapsed>>
            ELSE /\ error' = error
                 /\ lastCount' = count
                 /\ IF HasArrived(count, existingAssistantCount)
                    THEN /\ pc' = "wfa_loop"
                         /\ waElapsed' = 0
                    ELSE /\ pc' = pc
                         /\ waElapsed' = Advance(waElapsed, ArrivalPause, AnswerTimeout)
  /\ UNCHANGED <<runVars, events, cfVars, wfpVars, inputVars,
                 lastText, stableCount, emptyLoops, sample, exitKind, answer, result>>

\* answer texts, as sequences of chunks
Chunks == {"Hello", "Thinking"}
Texts == UNION { [1..n -> Chunks] : n \in 0..MaxLen }

\* line 339: /Thinking|Reasoning|Answer now/i.test(currentText)
IsThinking(text) == \E i \in 1..Len(text) : text[i] = "Thinking"

\* line 341
Grew(currentText, last) == Len(currentText) > Len(last)

\* lines 341-356: the counters after a tick that sampled currentText
CountersAfter(currentText, last, stable, empty) ==
  IF Grew(currentText, last)
  THEN [lastText |-> currentText, stableCount |-> 0, emptyLoops |-> 0]
  ELSE IF Len(currentText) > 0
       THEN [lastText |-> last, stableCount |-> stable + 1, emptyLoops |-> empty]
       ELSE [lastText |-> last, stableCount |-> stable, emptyLoops |-> empty + 1]

\* exits that do not look for a thinking phrase
ExitDecisionWhileThinking(s, stable, empty) ==
  IF s.isDone /\ Len(s.text) > 0 THEN "A"
  ELSE IF ~s.isGenerating /\ stable > StableThreshold /\ Len(s.text) > 0 THEN "B"
  ELSE IF empty > EmptyThreshold THEN "C"
  ELSE "none"

\* an Exit B that does not look at the stop button
ExitDecisionBlindB(s, stable, empty) ==
  IF s.isDone /\ Len(s.text) > 0 /\ ~IsThinking(s.text) THEN "A"
  ELSE IF stable > StableThreshold /\ Len(s.text) > 0 /\ ~IsThinking(s.text) THEN "B"
  ELSE IF empty > EmptyThreshold THEN "C"
  ELSE "none"

\* an Exit A that waits for the stop button to go
ExitDecisionLateA(s, stable, empty) ==
  IF s.isDone /\ ~s.isGenerating /\ Len(s.text) > 0 /\ ~IsThinking(s.text) THEN "A"
  ELSE IF ~s.isGenerating /\ stable > StableThreshold /\ Len(s.text) > 0
          /\ ~IsThinking(s.text) THEN "B"
  ELSE IF empty > EmptyThreshold THEN "C"
  ELSE "none"

\* lines 365, 371, 377: the exit a tick takes, "none" to go on
ExitDecision(s, stable, empty) ==
  IF s.isDone /\ Len(s.text) > 0 /\ ~IsThinking(s.text) THEN "A"
  ELSE IF ~s.isGenerating /\ stable > StableThreshold /\ Len(s.text) > 0
          /\ ~IsThinking(s.text) THEN "B"
  ELSE IF empty > EmptyThreshold THEN "C"
  ELSE "none"

\* a safety valve that throws
ExitOutcomeHardValve(exit) == IF exit = "C" THEN "throw" ELSE "break"

\* lines 367, 373, 379: every exit leaves the loop with a break
ExitOutcome(exit) == "break"

\* The overall deadline of line 324 can pass before any tick (timeoutMs is the
\* caller's); the model lets it pass at the latest when a counter reaches its
\* bound.
DeadlineForced(stable, empty) ==
  \/ stable >= MaxStable
  \/ (stable > 0 /\ empty > 0 /\ stable + empty > MaxMixed)

\* one pass of the loop of lines 326-383, or its end at the deadline, on a
\* page whose answer text is one of texts
AnswerTickOn(texts) ==
  /\ pc = "wfa_loop"
  /\ IF DeadlinePassed(waElapsed, AnswerTimeout) \/ DeadlineForced(stableCount, emptyLoops)
     THEN /\ exitKind' = "deadline"
          /\ IF ExitOutcome("deadline") = "break"
             THEN pc' = "extract" /\ error' = error
             ELSE Throw("AnswerTimeout")
          /\ UNCHANGED <<waElapsed, lastText, stableCount, emptyLoops, sample>>
     ELSE \/ /\ Throw("PageError")
             /\ UNCHANGED <<waElapsed, lastText, stableCount, emptyLoops, sample, exitKind>>
          \/ \E text \in texts, gen \in BOOLEAN, done \in BOOLEAN :
               LET s == [text |-> text, isGenerating |-> gen, isDone |-> done]
                   c == CountersAfter(text, lastText, stableCount, emptyLoops)
                   exit == ExitDecision(s, c.stableCount, c.emptyLoops)
               IN  /\ sample' = s
                   /\ lastText' = c.lastText
                   /\ stableCount' = c.stableCount
                   /\ emptyLoops' = c.emptyLoops
                   /\ exitKind' = exit
                   /\ IF exit = "none"
                      THEN /\ pc' = pc
                           /\ error' = error
                           /\ waElapsed' = Advance(waElapsed, AnswerPause, AnswerTimeout)
                      ELSE /\ IF ExitOutcome(exit) = "break"
                              THEN pc' = "extract" /\ error' = error
                              ELSE Throw("AnswerTimeout")
                           /\ UNCHANGED waElapsed
  /\ UNCHANGED <<runVars, events, cfVars, wfpVars, inputVars, lastCount, answer, result>>

AnswerTick == AnswerTickOn(Texts)

\* lines 385-388: the final samples, taken straight after the loop, and the
\* return of waitForAnswer, on a page whose answer text is one of texts.  The
\* loop's counters and last sample are dropped; lastText stays as the record
\* of what the loop observed.
ExtractOn(texts) ==
  /\ pc = "extract"
  /\ events' = Append(events, "extract")
  /\ \/ /\ \E text \in texts : answer' = [text |-> text]
        /\ pc' = "cleanup"
        /\ error' = error
     \/ /\ Throw("PageError")
        /\ UNCHANGED answer
  /\ stableCount' = 0
  /\ emptyLoops' = 0
  /\ sample' = NoSample
  /\ UNCHANGED <<runVars, cfVars, wfpVars, inputVars, lastCount, waElapsed,
                 lastText, exitKind, result>>

Extract == ExtractOn(Texts)

(* --------------------------- runStealth: the end ------------------------ *)
\* a result that carries the text the loop remembered
ResultTextRemembered(waited, remembered) == remembered

\* line 201: answerText: answer.text, the text of line 385
ResultText(waited, remembered) == waited.text

\* a run that closes whatever context it has unless told to keep the browser
ShouldCloseAttached(keepBrowser, remoteAttached) == ~keepBrowser

\* line 193: !config.keepBrowser && !remoteAttached
ShouldClose(keepBrowser, remoteAttached) == ~keepBrowser /\ ~remoteAttached

\* lines 190-211: close what the run launched, remove its profile, return;
\* browserContext.close() can throw, rm's failure is swallowed
Cleanup ==
  /\ pc = "cleanup"
  /\ LET closes == ShouldClose(options.config.keepBrowser, browser = "attached")
         removes == closes /\ tempProfile = "exists"
     IN  \/ /\ browser' = IF closes THEN "closed" ELSE browser
            /\ tempProfile' = IF removes THEN "removed" ELSE tempProfile
            /\ events' = events \o (IF closes THEN <<"close">> ELSE <<>>)
                                \o (IF removes THEN <<"rm">> ELSE <<>>)
            /\ result' = [returned |-> TRUE, answerText |-> ResultText(answer, lastText)]
            /\ pc' = "done"
            /\ error' = error
         \/ /\ closes
            /\ events' = Append(events, "close")
            /\ Throw("PageError")
            /\ UNCHANGED <<browser, tempProfile, result>>
  /\ UNCHANGED <<upload, bundle, overlay, hooks, remote, options, promptText, cfVars, wfpVars, inputVars, answerVars>>

(* ----------------------------- specifications --------------------------- *)
Next ==
  \/ CheckPrompt
  \/ Launch
  \/ Navigate
  \/ SolveCloudflareTick
  \/ DismissOverlays
  \/ WaitForSelector
  \/ WaitForPromptTick
  \/ LocateAndFocus
  \/ Paste
  \/ TypeStep
  \/ InjectStep
  \/ Submit
  \/ ArrivalTick
  \/ AnswerTick
  \/ Extract
  \/ Cleanup

\* a whole run, with the timeouts its configuration gives
Spec == Init /\ [][Next]_vars

\* a whole run that goes on while it has a step to take: runStealth is one
\* chain of awaits
SpecLive == Init /\ [][Next]_vars /\ WF_vars(Next)

\* the state in which runStealth calls waitForAnswer (line 188) after a run
\* that launched its own browser, pasted the prompt and clicked send, with
\* the default timeout or a short one
InitAnswer ==
  /\ pc = "wfa_arrival"
  /\ \/ options = [prompt |-> [given |-> TRUE, text |-> <<" ", "h", " ">>],
                   config |-> [chromeProfilePath |-> FALSE, keepBrowser |-> FALSE,
                               inputTimeoutMs |-> 0, timeoutMs |-> 0]]
     \/ options = [prompt |-> [given |-> TRUE, text |-> <<" ", "h", " ">>],
                   config |-> [chromeProfilePath |-> FALSE, keepBrowser |-> FALSE,
                               inputTimeoutMs |-> 0, timeoutMs |-> 2]]
  /\ promptText = <<"h">>
  /\ error = ""
  /\ tempProfile = "exists"
  /\ browser = "launched"
  /\ events = <<"mkdtemp", "launch", "goto", "overlays", "focus", "paste", "count", "click">>
  /\ cfTimeout = 0
  /\ cfElapsed = 0
  /\ consecutiveCleanChecks = 0
  /\ cf = NoDetection
  /\ cfRet = "main"
  /\ wfpElapsed = 0
  /\ wfpTick = "none"
  /\ wfpCf = [challenge |-> FALSE]
  /\ promptHandle = "specific"
  /\ surface = NoSurface
  /\ inputVal = <<"h">>
  /\ currentVal = <<"h">>
  /\ existingAssistantCount \in 0..(MaxMsgs - 1)
  /\ send = [exists |-> TRUE, disabled |-> FALSE, woke |-> "no", action |-> "click"]
  /\ lastCount = 0
  /\ waElapsed = 0
  /\ lastText = <<>>
  /\ stableCount = 0
  /\ emptyLoops = 0
  /\ sample = NoSample
  /\ exitKind = "none"
  /\ answer = NoAnswer
  /\ result = NoResult
  /\ upload = NoUpload
  /\ bundle = NoBundle
  /\ OthersIdle

NextAnswer ==
  \/ ArrivalTick
  \/ AnswerTick
  \/ Extract
  \/ Cleanup

\* waitForAnswer and the end of the run
SpecAnswer == InitAnswer /\ [][NextAnswer]_vars

(* -------------------- uploadAttachmentViaDataTransfer ------------------- *)
\* remoteFileTransfer.ts line 112 and line 147, in milliseconds
RecognitionTimeoutMs == 10000
RecognitionDelayMs == 250

\* lines 30-40: the first of FILE_INPUT_SELECTOR, GENERIC_FILE_INPUT_SELECTOR
\* for which dom.querySelector gives a node
FirstSelector(specific, generic) ==
  IF specific THEN "specific" ELSE IF generic THEN "generic" ELSE "none"

\* lines 48-101, the script run in the page.  present: the selector still
\* matches; setter: the prototype's 'files' setter is "absent", "throws" or
\* "ok"; define: Object.defineProperty "throws" or is "ok".
InjectionScript(present, setter, define) ==
  LET assigned == setter = "ok" \/ define = "ok"
  IN  IF ~present THEN [defined |-> TRUE, success |-> FALSE]
      ELSE [defined |-> TRUE, success |-> assigned]

\* the values runtime.evaluate can give for the script
InjectionValues ==
  { InjectionScript(present, setter, define) :
      present \in BOOLEAN, setter \in {"absent", "throws", "ok"}, define \in {"throws", "ok"} }
    \cup { [defined |-> FALSE, success |-> FALSE] }

\* an injection taken to have worked whatever it reports
InjectionAssumed(uploadResult) == TRUE

\* line 107: uploadResult?.success
InjectionSucceeded(uploadResult) == uploadResult.defined /\ uploadResult.success

\* line 144: result.value === true
IsRecognized(value) == value = "true"

UploadReject(e) == upload' = [upload EXCEPT !.pc = "rejected", !.error = e]

\* lines 17-28: the DOM check, the read of the file, the first log line
UploadStart ==
  /\ upload.pc = "start"
  /\ IF ~upload.dom
     THEN UploadReject("DomUnavailable")
     ELSE \/ UploadReject("ReadFailed")
          \/ upload' = [upload EXCEPT !.pc = "find", !.log = Append(@, "transferring")]
  /\ UNCHANGED <<pc, options, promptText, error, tempProfile, browser, events,
                 cfVars, wfpVars, inputVars, answerVars, result, bundle, overlay, hooks, remote>>

\* lines 30-46: the search for the file input
UploadFind ==
  /\ upload.pc = "find"
  /\ \/ UploadReject("DomFailed")
     \/ \E specific \in BOOLEAN, generic \in BOOLEAN :
          LET selector == FirstSelector(specific, generic)
          IN  IF selector = "none"
              THEN upload' = [upload EXCEPT !.pc = "rejected", !.error = "NoFileInput",
                                            !.log = Append(@, "domFailure")]
              ELSE upload' = [upload EXCEPT !.pc = "inject", !.fileInputSelector = selector]
  /\ UNCHANGED <<pc, options, promptText, error, tempProfile, browser, events,
                 cfVars, wfpVars, inputVars, answerVars, result, bundle, overlay, hooks, remote>>

\* lines 104-111: the injection and the test of its report
UploadInject ==
  /\ upload.pc = "inject"
  /\ \/ upload' = [upload EXCEPT !.pc = "rejected", !.error = "EvaluateFailed",
                                 !.injections = @ + 1]
     \/ \E uploadResult \in InjectionValues :
          IF InjectionSucceeded(uploadResult)
          THEN upload' = [upload EXCEPT !.pc = "recognize", !.injections = @ + 1,
                                        !.success = uploadResult.success,
                                        !.log = Append(@, "transferred")]
          ELSE upload' = [upload EXCEPT !.pc = "rejected", !.error = "TransferFailed",
                                        !.injections = @ + 1,
                                        !.success = uploadResult.success]
  /\ UNCHANGED <<pc, options, promptText, error, tempProfile, browser, events,
                 cfVars, wfpVars, inputVars, answerVars, result, bundle, overlay, hooks, remote>>

\* one pass of the loop of lines 142-148, or the throw of line 150; on a
\* recognition, the return and the last log line (113)
UploadRecognitionTick ==
  /\ upload.pc = "recognize"
  /\ IF upload.elapsed >= RecognitionTimeoutMs
     THEN UploadReject("NotRegistered")
     ELSE \/ upload' = [upload EXCEPT !.pc = "rejected", !.error = "EvaluateFailed",
                                      !.checks = @ + 1]
          \/ \E value \in {"true", "false", "truthy"} :
               IF IsRecognized(value)
               THEN upload' = [upload EXCEPT !.pc = "resolved", !.checks = @ + 1,
                                             !.log = Append(@, "queued")]
               ELSE upload' = [upload EXCEPT !.checks = @ + 1,
                                             !.elapsed = @ + RecognitionDelayMs]
  /\ UNCHANGED <<pc, options, promptText, error, tempProfile, browser, events,
                 cfVars, wfpVars, inputVars, answerVars, result, bundle, overlay, hooks, remote>>

\* a call of uploadAttachmentViaDataTransfer, with or without a DOM domain,
\* while no run of runStealth is under way
InitUpload ==
  /\ RunStart({[prompt |-> [given |-> FALSE, text |-> <<>>],
                config |-> [chromeProfilePath |-> FALSE, keepBrowser |-> FALSE,
                            inputTimeoutMs |-> 0, timeoutMs |-> 0]]})
  /\ \E dom \in BOOLEAN : upload = [NoUpload EXCEPT !.pc = "start", !.dom = dom]
  /\ bundle = NoBundle
  /\ OthersIdle

NextUpload ==
  \/ UploadStart
  \/ UploadFind
  \/ UploadInject
  \/ UploadRecognitionTick

SpecUpload == InitUpload /\ [][NextUpload]_vars

(* -------------------------- assembleBrowserPrompt ----------------------- *)
\* A text is a sequence of lines, a line a sequence of words; <<>> is the
\* empty line, and the empty string has no line.

\* String.prototype.trimEnd on a text: trailing blank lines go, and the
\* trailing spaces of the last line left
RECURSIVE TextTrimEnd(_)
TextTrimEnd(text) ==
  IF text = <<>> THEN <<>>
  ELSE LET last == TrimEnd(text[Len(text)])
       IN  IF last = <<>> THEN TextTrimEnd(SubSeq(text, 1, Len(text) - 1))
           ELSE SubSeq(text, 1, Len(text) - 1) \o <<last>>

RECURSIVE TextTrimStart(_)
TextTrimStart(text) ==
  IF text = <<>> THEN <<>>
  ELSE LET first == TrimStart(text[1])
       IN  IF first = <<>> THEN TextTrimStart(SubSeq(text, 2, Len(text)))
           ELSE <<first>> \o SubSeq(text, 2, Len(text))

\* String.prototype.trim on a text
TextTrim(text) == TextTrimStart(TextTrimEnd(text))

\* the lines an array element adds to array.join('\n'): the empty string adds
\* one empty line
ElementLines(text) == IF text = <<>> THEN << <<>> >> ELSE text

\* the files readFiles gives: a display path under cwd and a content
FilePaths == {"a.txt", "docs/one.md"}
FileContents == { <<>>, << <<"hi">>, <<>> >> }
FileLists == UNION { [1..n -> [displayPath : FilePaths, content : FileContents]] : n \in 0..MaxFiles }

\* runOptions.system: absent, or a string
Systems ==
  { [given |-> FALSE, text |-> <<>>],
    [given |-> TRUE, text |-> <<" ">>],
    [given |-> TRUE, text |-> <<"Be", " ", "brief", " ">>] }

DEFAULT_SYSTEM_PROMPT == <<"You", " ", "are", " ", "Oracle">>

\* line 35: runOptions.system?.trim() || DEFAULT_SYSTEM_PROMPT
SystemPrompt(system) ==
  LET trimmed == IF system.given THEN Trim(system.text) ELSE <<>>
  IN  IF trimmed = <<>> THEN DEFAULT_SYSTEM_PROMPT ELSE trimmed

\* line 34: buildPrompt(runOptions.prompt, files, cwd).  Its code is not in
\* the sources at hand; the test shows that its text holds the prompt and no
\* [FILE: ...] line.
BuildPrompt(prompt, files) == <<prompt>>

\* line 36: createFileSections(files, cwd), one section per file, in order
CreateFileSections(files) ==
  [i \in 1..Len(files) |-> [displayPath |-> files[i].displayPath, content |-> files[i].content]]

\* the template `[FILE: ${section.displayPath}]`
FileMarker(displayPath) == <<"[FILE:", " ", displayPath, "]">>

\* lines 38-40 and 47-49: what sections.forEach pushes
RECURSIVE SectionLines(_)
SectionLines(sections) ==
  IF sections = <<>> THEN <<>>
  ELSE <<FileMarker(sections[1].displayPath)>>
         \o ElementLines(TextTrimEnd(sections[1].content))
         \o << <<>> >>
         \o SectionLines(SubSeq(sections, 2, Len(sections)))

\* lines 37-41
Markdown(systemPrompt, userPrompt, sections) ==
  TextTrimEnd(<< <<"[SYSTEM]">>, systemPrompt, <<>>, <<"[USER]">> >>
                \o ElementLines(userPrompt) \o << <<>> >> \o SectionLines(sections))

\* a composer text that carries the file sections as well
ComposerTextWithFiles(systemPrompt, userPrompt, sections) ==
  TextTrim(<<systemPrompt, <<>>>> \o ElementLines(userPrompt) \o << <<>> >>
             \o SectionLines(sections))

\* lines 42-43
ComposerText(systemPrompt, userPrompt, sections) ==
  TextTrim(<<systemPrompt, <<>>>> \o ElementLines(userPrompt))

\* line 45
HasAttachment(sections) == Len(sections) > 0

\* lines 50 and 53: `${attachmentMarkdown}\n`
AttachmentContents(sections) == Append(TextTrimEnd(SectionLines(sections)), <<>>)

\* lines 27-64: the whole call; readFiles and fs.writeFile can reject
AssembleBrowserPrompt ==
  /\ bundle.pc = "start"
  /\ \/ bundle' = [bundle EXCEPT !.pc = "rejected"]
     \/ LET userPrompt == BuildPrompt(<<"Explain", " ", "the", " ", "bug">>, bundle.files)
            systemPrompt == SystemPrompt(bundle.system)
            sections == CreateFileSections(bundle.files)
        IN  \/ /\ HasAttachment(sections)
               /\ bundle' = [bundle EXCEPT !.pc = "rejected"]
            \/ bundle' = [bundle EXCEPT
                            !.pc = "resolved",
                            !.markdown = Markdown(systemPrompt, userPrompt, sections),
                            !.composerText = ComposerText(systemPrompt, userPrompt, sections),
                            !.attachmentFilePath =
                               IF HasAttachment(sections) THEN "tmpfile" ELSE "undefined",
                            !.written =
                               IF HasAttachment(sections) THEN AttachmentContents(sections)
                               ELSE <<>>]
  /\ UNCHANGED <<pc, options, promptText, error, tempProfile, browser, events,
                 cfVars, wfpVars, inputVars, answerVars, result, upload, overlay, hooks, remote>>

\* a call of assembleBrowserPrompt on any system prompt and list of files,
\* while no run of runStealth is under way
InitBundle ==
  /\ RunStart({[prompt |-> [given |-> FALSE, text |-> <<>>],
                config |-> [chromeProfilePath |-> FALSE, keepBrowser |-> FALSE,
                            inputTimeoutMs |-> 0, timeoutMs |-> 0]]})
  /\ upload = NoUpload
  /\ \E system \in Systems, files \in FileLists :
       bundle = [NoBundle EXCEPT !.pc = "start", !.system = system, !.files = files]
  /\ OthersIdle

NextBundle == AssembleBrowserPrompt

SpecBundle == InitBundle /\ [][NextBundle]_vars

(* ---------------------------- a streaming page -------------------------- *)
\* the answer "Hello", arriving as "H", "He", "Hello"
StreamText == <<"H", "e", "llo">>

\* what a page that streams StreamText shows next, having shown t
StreamNext(t) ==
  {t} \cup (IF Len(t) < Len(StreamText) THEN {SubSeq(StreamText, 1, Len(t) + 1)} ELSE {})

StreamTick == AnswerTickOn(StreamNext(sample.text))

StreamExtract == ExtractOn(StreamNext(sample.text))

NextStream ==
  \/ ArrivalTick
  \/ StreamTick
  \/ StreamExtract
  \/ Cleanup

\* waitForAnswer and the end of the run on a page that streams StreamText
SpecStream == InitAnswer /\ [][NextStream]_vars

(* ---------------------- dismissOverlays, visit by visit ----------------- *)
\* The list imported from constants.js, which is not among the sources: a
\* prioritized list of selectors, here numbered in list order.
OVERLAY_SELECTORS == [n \in 1..MaxSelectors |-> n]

\* a sweep that clicks whatever is in the DOM
ShouldDismissPresent(query, visible) == query = "element"

\* line 271: el && await el.isVisible()
ShouldDismiss(query, visible) == query = "element" /\ visible = "true"

\* Lines 269-278, one selector's try block.  query: page.$ gives "none", an
\* "element", or "throws"; visible: isVisible() gives "true", "false" or
\* "throws"; click: el.click() is "ok" or "throws".  clicked: el.click() was
\* called; caught: the catch of line 276 swallowed a throw.
Visit(query, visible, click) ==
  LET asked == query = "element"
      dismiss == asked /\ visible # "throws" /\ ShouldDismiss(query, visible)
  IN  [query |-> query,
       visible |-> IF asked THEN visible ELSE "unasked",
       clicked |-> dismiss,
       caught |-> \/ query = "throws"
                  \/ (asked /\ visible = "throws")
                  \/ (dismiss /\ click = "throws")]

\* one turn of the inner loop of lines 268-279
OverlayVisit ==
  /\ overlay.pc = "visit"
  /\ \E query \in {"none", "element", "throws"}, visible \in {"true", "false", "throws"},
        click \in {"ok", "throws"} :
       LET k == Len(overlay.visited) + 1
           v == Visit(query, visible, click)
       IN  overlay' = [overlay EXCEPT
                         !.visited = Append(@, OVERLAY_SELECTORS[k]),
                         !.clicks = @ + (IF v.clicked THEN 1 ELSE 0),
                         !.last = v,
                         !.pc = IF k = Len(OVERLAY_SELECTORS) THEN "pause" ELSE "visit"]
  /\ UNCHANGED <<stealthVars, upload, bundle, hooks, remote>>

\* lines 267 and 280: the pause that ends a pass, and the next pass or the
\* return
OverlayPassEnd ==
  /\ overlay.pc = "pause"
  /\ overlay' = [overlay EXCEPT
                   !.i = @ + 1,
                   !.visited = <<>>,
                   !.pc = IF overlay.i + 1 < OverlayPasses THEN "visit" ELSE "returned"]
  /\ UNCHANGED <<stealthVars, upload, bundle, hooks, remote>>

\* a call of dismissOverlays while no run of runStealth is under way
InitOverlay ==
  /\ RunStart({[prompt |-> [given |-> FALSE, text |-> <<>>],
                config |-> [chromeProfilePath |-> FALSE, keepBrowser |-> FALSE,
                            inputTimeoutMs |-> 0, timeoutMs |-> 0]]})
  /\ upload = NoUpload
  /\ bundle = NoBundle
  /\ overlay = [NoOverlay EXCEPT !.pc = "visit"]
  /\ hooks = NoHooks
  /\ remote = NoRemote

NextOverlay ==
  \/ OverlayVisit
  \/ OverlayPassEnd

SpecOverlay == InitOverlay /\ [][NextOverlay]_vars

(* ------------------------- registerTerminationHooks --------------------- *)
\* part_000 line 93
Signals == {"SIGINT", "SIGTERM", "SIGQUIT"}

\* part_000 line 112: signal === 'SIGINT' ? 130 : 1
SigintExitCode == 130
OtherExitCode == 1
ExitCodeOf(signal) == IF signal = "SIGINT" THEN SigintExitCode ELSE OtherExitCode

\* a handler that takes every signal
IgnoredNever(handling) == FALSE

\* part_000 lines 97-99: if (handling) return
Ignored(handling) == handling

\* A signal reaches the process.  With the listeners on, handleSignal runs
\* (lines 96-115): a first signal sets handling and starts the async block,
\* which calls chrome.kill() before its first await.  With the listeners
\* removed, handleSignal is not called.
HookSignal ==
  /\ hooks.exits = 0
  /\ Len(hooks.delivered) + hooks.unheard < MaxSignals
  /\ \E signal \in Signals :
       IF ~hooks.listening
       THEN hooks' = [hooks EXCEPT !.unheard = @ + 1]
       ELSE IF Ignored(hooks.handling)
            THEN hooks' = [hooks EXCEPT !.delivered = Append(@, signal)]
            ELSE hooks' = [hooks EXCEPT !.delivered = Append(@, signal),
                                        !.handling = TRUE,
                                        !.signal = signal,
                                        !.kills = @ + 1,
                                        !.async = "killing"]
  /\ UNCHANGED <<stealthVars, upload, bundle, overlay, remote>>

\* part_000 lines 102-110: chrome.kill() settles, a rejection is swallowed;
\* then the directory is removed unless keepBrowser
HookKillSettles ==
  /\ hooks.exits = 0
  /\ hooks.async = "killing"
  /\ \E rejected \in BOOLEAN :
       hooks' = [hooks EXCEPT !.killFailed = rejected,
                              !.removes = IF hooks.keepBrowser THEN @ ELSE @ + 1,
                              !.async = IF hooks.keepBrowser THEN "settled" ELSE "removing"]
  /\ UNCHANGED <<stealthVars, upload, bundle, overlay, remote>>

\* part_000 line 109: rm settles, its failure swallowed
HookRmSettles ==
  /\ hooks.exits = 0
  /\ hooks.async = "removing"
  /\ hooks' = [hooks EXCEPT !.async = "settled"]
  /\ UNCHANGED <<stealthVars, upload, bundle, overlay, remote>>

\* part_000 lines 111-114: the finally callback
HookExit ==
  /\ hooks.exits = 0
  /\ hooks.async = "settled"
  /\ hooks' = [hooks EXCEPT !.exits = @ + 1,
                            !.exitCode = ExitCodeOf(hooks.signal),
                            !.async = "exited"]
  /\ UNCHANGED <<stealthVars, upload, bundle, overlay, remote>>

\* part_000 lines 121-125: the disposer the caller got
HookDispose ==
  /\ hooks.exits = 0
  /\ hooks.listening
  /\ hooks' = [hooks EXCEPT !.listening = FALSE]
  /\ UNCHANGED <<stealthVars, upload, bundle, overlay, remote>>

\* registerTerminationHooks has returned (part_000 lines 117-119: the three
\* listeners are on), while no run of runStealth is under way
InitHooks ==
  /\ RunStart({[prompt |-> [given |-> FALSE, text |-> <<>>],
                config |-> [chromeProfilePath |-> FALSE, keepBrowser |-> FALSE,
                            inputTimeoutMs |-> 0, timeoutMs |-> 0]]})
  /\ upload = NoUpload
  /\ bundle = NoBundle
  /\ overlay = NoOverlay
  /\ \E keepBrowser \in BOOLEAN :
       hooks = [NoHooks EXCEPT !.listening = TRUE, !.keepBrowser = keepBrowser]
  /\ remote = NoRemote

NextHooks ==
  \/ HookSignal
  \/ HookKillSettles
  \/ HookRmSettles
  \/ HookExit
  \/ HookDispose

\* Signals and the disposer come when they come; the promises of chrome.kill
\* and rm settle and the finally callback runs.
SpecHooks ==
  /\ InitHooks
  /\ [][NextHooks]_vars
  /\ WF_vars(HookKillSettles)
  /\ WF_vars(HookRmSettles)
  /\ WF_vars(HookExit)

(* ------------- connectToRemoteChrome, closeRemoteChromeTarget ----------- *)
\* part_000 lines 168-170 and 174-177: with a targetUrl, CDP.New opens a tab
\* for it; without one, or when CDP.New rejects, the fallback follows
RemoteOpen ==
  /\ remote.pc = "start"
  /\ IF ~remote.targetUrl
     THEN remote' = [remote EXCEPT !.pc = "fallback"]
     ELSE \/ remote' = [remote EXCEPT !.pc = "attach", !.created = TRUE, !.createdOpen = TRUE]
          \/ remote' = [remote EXCEPT !.pc = "fallback", !.log = Append(@, "failedToOpen")]
  /\ UNCHANGED <<stealthVars, upload, bundle, overlay, hooks>>

\* part_000 lines 171-177: the client for the new tab; its rejection is
\* caught by the same catch and the fallback follows
RemoteAttach ==
  /\ remote.pc = "attach"
  /\ \/ remote' = [remote EXCEPT !.pc = "connected", !.client = "dedicated",
                                 !.targetId = "created", !.log = Append(@, "opened")]
     \/ remote' = [remote EXCEPT !.pc = "fallback", !.log = Append(@, "failedToOpen")]
  /\ UNCHANGED <<stealthVars, upload, bundle, overlay, hooks>>

\* part_000 lines 179-181: the client for the first target there is
RemoteFallback ==
  /\ remote.pc = "fallback"
  /\ \/ remote' = [remote EXCEPT !.pc = "rejected"]
     \/ /\ remote.tabs > 0 \/ remote.createdOpen
        /\ remote' = [remote EXCEPT !.pc = "connected", !.client = "first",
                                    !.log = Append(@, "connected")]
  /\ UNCHANGED <<stealthVars, upload, bundle, overlay, hooks>>

\* part_000 lines 184-202: closeRemoteChromeTarget, called with the targetId
\* the connection carries
CloseRemoteChromeTarget ==
  /\ remote.pc = "connected"
  /\ IF remote.targetId = "undefined"
     THEN remote' = [remote EXCEPT !.pc = "closed"]
     ELSE \/ remote' = [remote EXCEPT
                          !.pc = "closed", !.closeCalls = @ + 1, !.createdOpen = FALSE,
                          !.log = IF remote.verbose THEN Append(@, "closed") ELSE @]
          \/ remote' = [remote EXCEPT
                          !.pc = "closed", !.closeCalls = @ + 1,
                          !.log = Append(@, "failedToClose")]
  /\ UNCHANGED <<stealthVars, upload, bundle, overlay, hooks>>

\* a call of connectToRemoteChrome, with or without a targetUrl, on a remote
\* browser with some tabs, while no run of runStealth is under way
InitRemote ==
  /\ RunStart({[prompt |-> [given |-> FALSE, text |-> <<>>],
                config |-> [chromeProfilePath |-> FALSE, keepBrowser |-> FALSE,
                            inputTimeoutMs |-> 0, timeoutMs |-> 0]]})
  /\ upload = NoUpload
  /\ bundle = NoBundle
  /\ overlay = NoOverlay
  /\ hooks = NoHooks
  /\ \E targetUrl \in BOOLEAN, verbose \in BOOLEAN, tabs \in 0..MaxTabs :
       remote = [NoRemote EXCEPT !.pc = "start", !.targetUrl = targetUrl,
                                 !.verbose = verbose, !.tabs = tabs]

NextRemote ==
  \/ RemoteOpen
  \/ RemoteAttach
  \/ RemoteFallback
  \/ CloseRemoteChromeTarget

SpecRemote == InitRemote /\ [][NextRemote]_vars

(* ------------------------------- properties ----------------------------- *)
\* how often e occurs in the sequence s
Count(s, e) == Cardinality({ i \in 1..Len(s) : s[i] = e })

\* a string with nothing but spaces in it (the empty string included)
OnlySpaces(s) == \A i \in 1..Len(s) : s[i] = " "

DeliveryNames == {"paste", "type", "inject"}
SubmissionNames == {"click", "enter"}
IsDelivery(e) == e \in DeliveryNames
DeliveryEvents == SelectSeq(events, IsDelivery)
NothingDeliveredOrSubmitted ==
  \A i \in 1..Len(events) : events[i] \notin DeliveryNames \cup SubmissionNames

\* the event the step appends, "" when it appends none or several
Appended(e) == events' = Append(events, e)

\* C1: a run whose prompt is missing, empty or only whitespace fails with the
\* 'prompt required' error, and up to then no browser was launched or attached,
\* no profile directory created and no page action issued.
C1_PromptRequired ==
  (pc # "start" /\ (~options.prompt.given \/ OnlySpaces(options.prompt.text)))
    => /\ pc = "failed"
       /\ error = "PromptRequired"
       /\ events = <<>>
       /\ browser = "none"
       /\ tempProfile = "none"

C1_Witness ==
  /\ pc = "failed"
  /\ error = "PromptRequired"
  /\ options.prompt.given
  /\ Len(options.prompt.text) > 0

\* C2: when the input surface never becomes usable (the generic wait reaches
\* its deadline, or no handle is obtained) the run ends with a thrown failure
\* and has issued no delivery and no submission action; a delivery or
\* submission action is only ever issued on an obtained handle.
C2_NoInputNoDelivery ==
  /\ [](/\ error \in {"PromptNotVisible", "PromptHandleNotFound"}
            => (pc = "failed" /\ NothingDeliveredOrSubmitted)
        /\ ~NothingDeliveredOrSubmitted => promptHandle # "none")
  /\ [][(pc = "wfp_loop"
          /\ DeadlinePassed(wfpElapsed,
                            OrDefault(options.config.inputTimeoutMs, DefaultInputTimeout)))
         => (pc' = "failed" /\ error' = "PromptNotVisible" /\ events' = events)]_vars

C2_Witness ==
  /\ pc = "failed"
  /\ error = "PromptNotVisible"
  /\ wfpTick = "sweep"

\* C3: the streaming loop is entered only after a poll read a count of reply
\* elements above the one sampled before submission; when the arrival deadline
\* passes without such a poll the run fails with 'answer did not arrive', and
\* that is the only error waitForAnswer raises of its own (a failing page
\* call passes through it): the overall deadline and the safety valve end the
\* loop without a throw, and the final sampling follows.
C3_ArrivalGate ==
  /\ [](/\ pc \in {"wfa_loop", "extract", "cleanup", "done"}
            => lastCount > existingAssistantCount
        /\ exitKind # "none" => lastCount > existingAssistantCount
        /\ error = "AnswerDidNotArrive"
             => /\ pc = "failed"
                /\ lastCount <= existingAssistantCount
                /\ DeadlinePassed(waElapsed, AnswerTimeout)
                /\ exitKind = "none"
        /\ error \in {"", "AnswerDidNotArrive", "PageError"})
  /\ [][/\ (pc = "wfa_arrival" /\ DeadlinePassed(waElapsed, AnswerTimeout))
             => (pc' = "failed" /\ error' = "AnswerDidNotArrive")
        /\ (exitKind = "none" /\ exitKind' \in {"deadline", "C"})
             => (pc' = "extract" /\ error' = "")]_vars

C3_Witness ==
  /\ pc = "failed"
  /\ error = "AnswerDidNotArrive"
  /\ lastCount = existingAssistantCount
  /\ existingAssistantCount > 0

C5_DebounceThree ==
  [][(pc = "cf_loop" /\ pc' # "failed" /\ ~DeadlinePassed(cfElapsed, cfTimeout))
       => /\ (cf'.outcome = "clean") <=> (~cf'.challenge /\ consecutiveCleanChecks = 2)
          /\ cf'.challenge => (consecutiveCleanChecks' = 0 /\ cf'.outcome = "none")]_vars

\* C6: Exit B ends the loop only on a tick where the stop button is absent,
\* the stability counter is above 20, the sampled text is non-empty and no
\* thinking phrase is in it; with the stop button present it never fires.
C6_ExitBGuard ==
  [][(pc = "wfa_loop" /\ exitKind' = "B")
       => /\ ~sample'.isGenerating
          /\ stableCount' > 20
          /\ Len(sample'.text) > 0
          /\ ~IsThinking(sample'.text)
          /\ pc' = "extract"]_vars

C6_Witness ==
  /\ pc = "extract"
  /\ exitKind = "B"
  /\ ~sample.isGenerating
  /\ stableCount = 21

\* C7: on a tick whose sampled text is longer than the text the tick before
\* sampled, both counters are zero after the tick; on any other tick exactly
\* one counter goes up by one, the stability counter for a non-empty text and
\* the empty-tick counter for an empty one, and the other stays.
C7_GrowthSincePreviousTick ==
  [][(pc = "wfa_loop" /\ pc' # "failed" /\ exitKind' # "deadline")
       => IF Len(sample'.text) > Len(sample.text)
          THEN stableCount' = 0 /\ emptyLoops' = 0
          ELSE IF Len(sample'.text) > 0
               THEN stableCount' = stableCount + 1 /\ emptyLoops' = emptyLoops
               ELSE emptyLoops' = emptyLoops + 1 /\ stableCount' = stableCount]_vars

\* C8: when the reply element arrived, the empty-tick counter passes 300 and
\* no answer text was ever sampled, the loop ends without a throw, and the run
\* that goes on to return gives a result whose answerText is the empty string.
C8_SafetyValve ==
  /\ [][(exitKind = "none" /\ exitKind' = "C" /\ lastText' = <<>>)
          => (pc' = "extract" /\ error' = "" /\ emptyLoops' = 301
              /\ lastCount > existingAssistantCount)]_vars
  /\ []((exitKind = "C" /\ lastText = <<>>) => error \in {"", "PageError"})
  /\ []((pc = "done" /\ exitKind = "C" /\ lastText = <<>> /\ answer.text = <<>>)
          => (result.returned /\ result.answerText = <<>>))

C8_Witness ==
  /\ pc = "done"
  /\ exitKind = "C"
  /\ lastText = <<>>
  /\ result.returned
  /\ result.answerText = <<>>

\* C9: when the send control exists and stays disabled while the input is
\* non-empty, the run makes exactly one wake attempt, presses Enter exactly
\* once and never clicks the send control.
C9_WakeThenEnter ==
  (Count(events, "count") = 1 /\ send.exists /\ send.disabled /\ ~OnlySpaces(inputVal))
    => /\ Count(events, "wake") = 1
       /\ Count(events, "enter") = 1
       /\ Count(events, "click") = 0

\* C10: the first tick at which the completion marker is on the last turn, the
\* sampled text is non-empty and no thinking phrase is in it ends the loop,
\* whatever the stability counter and the stop button say.
C10_ExitASameTick ==
  /\ []((pc = "wfa_loop")
          => ~(sample.isDone /\ Len(sample.text) > 0 /\ ~IsThinking(sample.text)))
  /\ [][(pc = "wfa_loop" /\ pc' # "failed" /\ exitKind' # "deadline"
          /\ sample'.isDone /\ Len(sample'.text) > 0 /\ ~IsThinking(sample'.text))
         => (exitKind' = "A" /\ pc' = "extract")]_vars

C10_Witness ==
  /\ pc = "extract"
  /\ exitKind = "A"
  /\ sample.isGenerating
  /\ stableCount = 0

\* C11: the answerText a run returns is the text of the re-sample taken after
\* the loop has ended, not the text the loop remembered; on a page that shows
\* "H", "He", "Hello", keeps "Hello" and then carries the completion marker,
\* the loop ends by Exit A on the marker's tick and the run returns "Hello".
C11_ReturnsFinalSample ==
  /\ []((pc = "done") => (result.returned /\ result.answerText = answer.text))
  /\ []((pc = "done" /\ exitKind = "A" /\ lastText = StreamText)
          => result.answerText = StreamText)
  /\ [][(pc = "wfa_loop" /\ lastText = StreamText /\ pc' # "failed"
          /\ exitKind' # "deadline" /\ sample'.isDone)
         => (exitKind' = "A" /\ pc' = "extract" /\ sample'.text = StreamText)]_vars

C11_Witness ==
  /\ pc = "done"
  /\ exitKind = "A"
  /\ lastText = <<"H", "e", "llo">>
  /\ result.returned
  /\ result.answerText = <<"H", "e", "llo">>
  /\ send.action = "click"
  /\ Count(events, "paste") = 1
  /\ Count(events, "type") = 0

\* a run that returns a text the loop never remembered
C11_WitnessLate ==
  /\ pc = "done"
  /\ exitKind = "deadline"
  /\ lastText = <<"H", "e">>
  /\ result.answerText = <<"H", "e", "llo">>

\* C12: a page query that fails on a poll tick of the challenge resolver, of
\* the generic prompt wait, of the arrival wait or of the completion loop is
\* caught: the tick does not end the run with the page's error.
C12_TickFailureCaught ==
  [][(pc \in {"cf_loop", "wfp_loop", "wfa_arrival", "wfa_loop"})
       => ~(pc' = "failed" /\ error' = "PageError")]_vars

\* C13: an error thrown by a delivery strategy (paste, typing or direct
\* injection) is caught and never ends the run: every delivery step is
\* followed by the next step towards the submission.
C13_DeliveryNeverAborts ==
  [][(pc \in {"paste", "type", "inject"})
       => (pc' \in {"type", "inject", "submit"} /\ error' = "")]_vars

\* C14: every call of solveCloudflare ends; it ends by a return, after a
\* confirmed Clean or at its deadline with the challenge still there, and the
\* caller goes on with its next phase; a detected challenge never makes it
\* throw.
C14_ResolverReturns ==
  /\ (pc = "cf_loop") ~> (pc # "cf_loop")
  /\ [][(pc = "cf_loop" /\ pc' # "cf_loop" /\ pc' # "failed")
          => /\ cf'.outcome \in {"clean", "timeout"}
             /\ cf'.outcome = "timeout" <=> DeadlinePassed(cfElapsed, cfTimeout)
             /\ pc' = (IF cfRet = "main" THEN "overlays" ELSE "wfp_loop")
             /\ error' = ""]_vars
  /\ [][(pc = "cf_loop" /\ pc' = "failed")
          => (error' = "PageError" /\ ~DeadlinePassed(cfElapsed, cfTimeout) /\ cf' = cf)]_vars

C14_Witness ==
  /\ pc = "overlays"
  /\ cf.outcome = "timeout"
  /\ cf.challenge
  /\ cfElapsed >= cfTimeout
  /\ error = ""

\* C15: a run that created a temporary profile directory and was not asked to
\* keep the browser has removed that directory when it ends, by a return or
\* by a throw.
C15_ProfileRemoved ==
  (pc \in {"done", "failed"} /\ tempProfile # "none" /\ ~options.config.keepBrowser)
    => tempProfile = "removed"

HasLogged(line) == \E i \in 1..Len(upload.log) : upload.log[i] = line

\* C16: uploadAttachmentViaDataTransfer resolves only after a file input was
\* located, the injection reported success and a recognition check gave true
\* before the 10 s deadline; otherwise it rejects and 'Attachment queued' is
\* not logged; no recognition check follows a failed injection and no
\* injection is evaluated when no file input was found.
C16_UploadResolves ==
  /\ [](/\ upload.pc = "resolved"
            => /\ upload.dom
               /\ upload.fileInputSelector # "none"
               /\ upload.injections = 1
               /\ upload.success
               /\ upload.checks >= 1
               /\ upload.elapsed < 10000
               /\ upload.error = ""
        /\ HasLogged("queued") <=> upload.pc = "resolved"
        /\ upload.fileInputSelector = "none" => upload.injections = 0
        /\ (upload.injections > 0 /\ ~upload.success) => upload.checks = 0
        /\ (upload.pc = "rejected") <=> (upload.error # ""))
  /\ [][/\ (upload.pc = "start" /\ ~upload.dom) => upload'.pc = "rejected"
        /\ (upload.pc = "find" /\ upload'.fileInputSelector = "none")
             => upload'.pc = "rejected"
        /\ (upload.pc = "inject" /\ ~upload'.success) => upload'.pc = "rejected"
        /\ (upload.pc = "recognize" /\ upload.elapsed >= 10000)
             => upload'.pc = "rejected"
        /\ (upload.pc = "recognize" /\ upload'.pc = "recognize")
             => upload'.elapsed = upload.elapsed + 250]_vars

C16_Witness ==
  /\ upload.pc = "resolved"
  /\ upload.fileInputSelector = "generic"
  /\ upload.checks = 40
  /\ HasLogged("queued")

\* the call rejected because the recognition never came
C16_WitnessLate ==
  /\ upload.pc = "rejected"
  /\ upload.error = "NotRegistered"
  /\ upload.checks = 40

IsFileMarker(line) == Len(line) > 0 /\ line[1] = "[FILE:"
MarkersIn(text) == SelectSeq(text, IsFileMarker)
MarkersOf(files) == [i \in 1..Len(files) |-> <<"[FILE:", " ", files[i].displayPath, "]">>]
HasLine(text, line) == \E i \in 1..Len(text) : text[i] = line

\* C17: for any list of files, the markdown of assembleBrowserPrompt has a
\* [SYSTEM] line, a [USER] line and one [FILE: displayPath] line per file in
\* the files' order; the composer text has the system prompt and the user
\* prompt and no [FILE: ...] line; an attachment file is written exactly when
\* there is a file, and it holds the [FILE: ...] blocks and nothing else.
C17_BundleBlocks ==
  bundle.pc = "resolved"
    => /\ bundle.markdown[1] = <<"[SYSTEM]">>
       /\ HasLine(bundle.markdown, <<"[USER]">>)
       /\ MarkersIn(bundle.markdown) = MarkersOf(bundle.files)
       /\ MarkersIn(bundle.composerText) = <<>>
       /\ ~HasLine(bundle.composerText, <<"[SYSTEM]">>)
       /\ ~HasLine(bundle.composerText, <<"[USER]">>)
       /\ Len(bundle.composerText) = 3
       /\ bundle.composerText[3] = <<"Explain", " ", "the", " ", "bug">>
       /\ (bundle.attachmentFilePath # "undefined") <=> (Len(bundle.files) > 0)
       /\ (bundle.written # <<>>) <=> (Len(bundle.files) > 0)
       /\ Len(bundle.files) > 0
            => /\ IsFileMarker(bundle.written[1])
               /\ MarkersIn(bundle.written) = MarkersOf(bundle.files)
               /\ ~HasLine(bundle.written, <<"[SYSTEM]">>)
               /\ ~HasLine(bundle.written, <<"[USER]">>)
               /\ \E k \in 1..Len(bundle.markdown) :
                    SubSeq(bundle.markdown, k, Len(bundle.markdown)) \o << <<>> >> = bundle.written

C17_Witness ==
  /\ bundle.pc = "resolved"
  /\ Len(bundle.files) = 2
  /\ bundle.files[1].displayPath = "docs/one.md"
  /\ bundle.files[2].displayPath = "a.txt"
  /\ bundle.attachmentFilePath = "tmpfile"

\* a call without files, which writes nothing
C17_WitnessNoFiles ==
  /\ bundle.pc = "resolved"
  /\ bundle.files = <<>>
  /\ bundle.attachmentFilePath = "undefined"

\* C18: the submission is decided on the input's final value: when the send
\* control exists and is reported disabled while the input holds non-empty
\* text, whichever strategy put it there, the wake sequence is attempted
\* before the run falls back to Enter.
C18_WakeOnFinalValue ==
  [][(pc = "submit" /\ send'.exists /\ send'.disabled /\ ~OnlySpaces(inputVal))
       => /\ send'.woke # "no"
          /\ \E i \in 1..Len(events') :
               /\ events'[i] = "wake"
               /\ events'[Len(events')] = "enter"
               /\ i < Len(events')]_vars

Submissions == Count(events, "click") + Count(events, "enter")
PastSubmission == pc \in {"wfa_arrival", "wfa_loop", "extract", "cleanup", "done"}

\* C19: a run that gets through the submission step has issued exactly one
\* submission action: a click if and only if the send control exists and its
\* last disabled check, after any wake sequence, reported enabled, and one
\* Enter otherwise; no run issues both, and a wake sequence that throws is
\* followed by one submission action as well.
C19_OneSubmission ==
  /\ Submissions <= 1
  /\ PastSubmission
       => /\ Submissions = 1
          /\ (Count(events, "click") = 1) <=> (send.exists /\ ~send.disabled)
          /\ (Count(events, "enter") = 1) <=> ~(send.exists /\ ~send.disabled)
          /\ Count(events, "wake") = (IF send.woke = "no" THEN 0 ELSE 1)

C19_Witness ==
  /\ pc = "wfa_arrival"
  /\ send.exists
  /\ send.woke = "throws"
  /\ Count(events, "enter") = 1
  /\ Count(events, "click") = 0

\* C20: the challenge resolver moves and clicks the pointer only on a tick
\* that located the verification element's coordinates; on a tick that
\* detects the challenge by the title alone it issues no pointer action,
\* sleeps and polls again.
C20_NoBlindClick ==
  /\ [](cf.pointer => (cf.frameBox /\ cf.frame /\ cf.challenge))
  /\ [][(pc = "cf_loop" /\ pc' # "failed" /\ ~DeadlinePassed(cfElapsed, cfTimeout)
          /\ cf'.challenge /\ ~cf'.frameBox)
         => /\ cf'.title
            /\ ~cf'.pointer
            /\ pc' = "cf_loop"
            /\ cfElapsed' = Min(cfElapsed + 10, cfTimeout)]_vars

C20_Witness ==
  /\ pc = "cf_loop"
  /\ cf.challenge
  /\ cf.title
  /\ cf.frame
  /\ ~cf.frameBox
  /\ ~cf.pointer
  /\ cfElapsed = 10

\* a tick that located the element and used the pointer
C20_WitnessClick ==
  /\ pc = "cf_loop"
  /\ cf.pointer
  /\ cf.frameBox
  /\ ~cf.title

\* C21: Exit C ends the loop only in a run whose earlier ticks never sampled a
\* non-empty answer text: once a text has been observed, a stretch of empty
\* samples does not end the wait through Exit C.
C21_ValveOnlyWithoutText ==
  [][(pc = "wfa_loop" /\ exitKind' = "C") => lastText = <<>>]_vars

\* C22: a tick whose sampled text carries a thinking phrase does not end the
\* loop by Exit A or Exit B, though the completion marker is there, the stop
\* button is gone and the stability counter is above 20; while the samples
\* keep the phrase, the loop goes on to extraction only at the overall
\* deadline.
C22_ThinkingSuppressesExits ==
  /\ [][(pc = "wfa_loop" /\ pc' # "failed" /\ exitKind' # "deadline"
          /\ \E i \in 1..Len(sample'.text) : sample'.text[i] = "Thinking")
         => (exitKind' = "none" /\ pc' = "wfa_loop")]_vars
  /\ [][(pc = "wfa_loop" /\ pc' = "extract"
          /\ \E i \in 1..Len(sample'.text) : sample'.text[i] = "Thinking")
         => (exitKind' = "deadline" /\ sample' = sample)]_vars

C22_Witness ==
  /\ pc = "wfa_loop"
  /\ sample.text = <<"Thinking">>
  /\ sample.isDone
  /\ ~sample.isGenerating
  /\ stableCount > 20
  /\ exitKind = "none"

\* C23: on every way out of the streaming loop (Exit A, Exit B, Exit C or the
\* overall deadline) a settle pause lies between the exit decision and the
\* final re-sample: the final samples are taken later than the loop ended.
C23_SettleBeforeExtract ==
  [][(pc = "extract" /\ Appended("extract") /\ AnswerTimeout < Horizon)
       => waElapsed' > waElapsed]_vars

\* C28: a resolver tick is clean only when the title does not match and no
\* challenge-hosting frame is among the page's frames: a tick that finds such
\* a frame is a challenge tick and puts the clean count back to zero, also
\* when no verification element is located in the frame or the query in the
\* frame fails.
C28_FrameMeansChallenge ==
  /\ [](cf.frame => cf.challenge)
  /\ [][(pc = "cf_loop" /\ pc' # "failed" /\ ~DeadlinePassed(cfElapsed, cfTimeout)
          /\ cf'.frame)
         => consecutiveCleanChecks' = 0]_vars

\* the phase of runStealth an event belongs to
PhaseOf(e) ==
  CASE e \in {"mkdtemp", "launch", "attach"} -> 0
    [] e = "goto" -> 1
    [] e = "overlays" -> 2
    [] e = "focus" -> 3
    [] e \in DeliveryNames -> 4
    [] e = "count" -> 5
    [] e = "wake" -> 6
    [] e \in SubmissionNames -> 7
    [] e = "extract" -> 8
    [] OTHER -> 9

\* the phase the run is in at a position
PhaseAt(p) ==
  CASE p \in {"start", "launch", "navigate"} -> 0
    [] p = "cf_loop" -> IF cfRet = "main" THEN 1 ELSE 3
    [] p = "overlays" -> 2
    [] p \in {"locate", "wfp_loop", "handle"} -> 3
    [] p \in {"paste", "type", "inject"} -> 4
    [] p = "submit" -> 5
    [] p \in {"wfa_arrival", "wfa_loop", "extract"} -> 8
    [] OTHER -> 9

\* C27: the phases of a run come in one order: the first challenge resolution
\* ends before the first overlay sweep, the sweep before the input surface is
\* located, no delivery before the input is located and focused, the baseline
\* count after the delivery and before the submission action, the completion
\* detector after the submission action, the return after the detector's
\* final extraction; no phase is entered again out of this order.
C27_PhaseOrder ==
  /\ [](/\ \A i, j \in 1..Len(events) : i < j => PhaseOf(events[i]) <= PhaseOf(events[j])
        /\ \A e \in {"goto", "overlays", "focus", "count", "extract"} : Count(events, e) <= 1
        /\ \A i \in 1..Len(events) : PhaseOf(events[i]) <= PhaseAt(pc)
        /\ pc = "wfa_arrival" => events[Len(events)] \in SubmissionNames
        /\ result.returned => (pc = "done" /\ Count(events, "extract") = 1))
  /\ [][/\ pc \notin {"failed", "done"} /\ pc' # "failed" => PhaseAt(pc)' >= PhaseAt(pc)
        /\ Appended("overlays") => (pc = "overlays" /\ cf.outcome \in {"clean", "timeout"})
        /\ Appended("focus") => (Count(events, "overlays") = 1 /\ promptHandle' # "none")
        /\ (\E e \in DeliveryNames : Appended(e)) => Count(events, "focus") = 1]_vars

C27_Witness ==
  /\ pc = "done"
  /\ result.returned
  /\ DeliveryEvents = <<"paste", "type">>
  /\ Count(events, "wake") = 1
  /\ Count(events, "enter") = 1
  /\ Count(events, "rm") = 1

\* C24: the element the run focuses and delivers the prompt to was visible,
\* enabled and had a bounding box with area when it was taken, on the path
\* through the specific selector and on the path through the generic wait; an
\* element that is only present in the DOM is not used.
C24_UsableSurface ==
  [][Appended("focus")
       => Usable(promptHandle' # "none", surface'.visible, surface'.enabled, surface'.box)]_vars

\* C25: a tick of waitForPrompt that found no usable input re-enters the
\* challenge resolver with the 10 s timeout when it detects a challenge, and
\* then does not sweep the overlays; otherwise it sweeps them.  waitForPrompt
\* ends by its own deadline, with a usable handle or a throw, also when every
\* tick detects a challenge.
C25_Reentry ==
  /\ []((wfpTick = "resolver" => wfpCf.challenge) /\ (wfpTick = "sweep" => ~wfpCf.challenge))
  /\ [][(pc = "wfp_loop" /\ pc' # "failed" /\ wfpTick' # "found")
          => IF wfpCf'.challenge
             THEN /\ pc' = "cf_loop"
                  /\ cfRet' = "prompt"
                  /\ cfTimeout' = 100
                  /\ cfElapsed' = 0
                  /\ wfpTick' = "resolver"
                  /\ wfpElapsed' = wfpElapsed
             ELSE /\ pc' = "wfp_loop"
                  /\ wfpTick' = "sweep"
                  /\ wfpElapsed' > wfpElapsed]_vars
  /\ [][(pc = "wfp_loop" /\ pc' = "handle") => wfpTick' = "found"]_vars
  /\ (pc = "wfp_loop") ~> (pc \in {"handle", "failed"})

\* the wait that met a challenge on its last tick and ended at its deadline
C25_Witness ==
  /\ pc = "failed"
  /\ error = "PromptNotVisible"
  /\ wfpTick = "resolver"
  /\ wfpCf.challenge

\* C26: dismissOverlays makes exactly 3 passes and in each pass visits every
\* overlay selector in list order; it clicks only an element that exists and
\* is visible on that visit; a missing element, a throwing visibility check
\* or a throwing click does not stop the visits that remain and never
\* reaches the caller.
C26_BestEffortSweep ==
  /\ [](/\ overlay.pc \in {"idle", "visit", "pause", "returned"}
        /\ overlay.pc = "returned" <=> overlay.i = 3
        /\ overlay.pc = "pause" => overlay.visited = OVERLAY_SELECTORS
        /\ overlay.last.clicked
             => (overlay.last.query = "element" /\ overlay.last.visible = "true")
        /\ overlay.clicks <= 3 * Len(OVERLAY_SELECTORS))
  /\ [][overlay.pc = "visit"
          => /\ overlay'.visited = SubSeq(OVERLAY_SELECTORS, 1, Len(overlay.visited) + 1)
             /\ overlay'.i = overlay.i
             /\ overlay'.pc \in {"visit", "pause"}
             /\ overlay'.clicks = overlay.clicks + (IF overlay'.last.clicked THEN 1 ELSE 0)]_vars
  /\ [][overlay.pc = "pause"
          => (overlay'.i = overlay.i + 1 /\ overlay'.clicks = overlay.clicks)]_vars

\* a sweep that returned though its last visit threw, after one click
C26_Witness ==
  /\ overlay.pc = "returned"
  /\ overlay.i = 3
  /\ overlay.clicks = 1
  /\ overlay.last.query = "throws"
  /\ overlay.last.caught

\* a click that threw and was swallowed
C26_WitnessClickThrows ==
  /\ overlay.pc = "visit"
  /\ overlay.last.clicked
  /\ overlay.last.caught

\* C29: of the signals SIGINT, SIGTERM and SIGQUIT that come after
\* registerTerminationHooks, in any order, only the first is handled:
\* chrome.kill is called at most once, the profile directory is removed at
\* most once and only without keepBrowser, and the process exits once, after
\* the kill attempt and the removal have finished, also when the kill failed,
\* with code 130 for SIGINT first and 1 otherwise; a signal that comes after
\* the disposer ran starts none of this.
C29_FirstSignalOnly ==
  /\ [](/\ hooks.kills <= 1 /\ hooks.removes <= 1 /\ hooks.exits <= 1
        /\ hooks.removes = 1 => ~hooks.keepBrowser
        /\ hooks.handling <=> hooks.delivered # <<>>
        /\ hooks.handling => (hooks.signal = hooks.delivered[1] /\ hooks.kills = 1)
        /\ ~hooks.handling => (hooks.kills = 0 /\ hooks.removes = 0 /\ hooks.exits = 0)
        /\ hooks.exits = 1
             => /\ hooks.kills = 1
                /\ hooks.keepBrowser \/ hooks.removes = 1
                /\ hooks.exitCode = (IF hooks.delivered[1] = "SIGINT" THEN 130 ELSE 1))
  /\ [][hooks'.exits > hooks.exits => hooks.async = "settled"]_vars
  /\ [][hooks'.removes > hooks.removes => hooks.async = "killing"]_vars
  /\ [][hooks'.unheard > hooks.unheard
          => /\ ~hooks.listening
             /\ hooks'.kills = hooks.kills
             /\ hooks'.removes = hooks.removes
             /\ hooks'.exits = hooks.exits
             /\ hooks'.handling = hooks.handling]_vars
  /\ [][~hooks.listening
          => (hooks'.delivered = hooks.delivered /\ hooks'.handling = hooks.handling)]_vars
  /\ hooks.handling ~> (hooks.exits = 1)

\* three signals, the first SIGTERM, a failed kill, and the exit with code 1
C29_Witness ==
  /\ hooks.exits = 1
  /\ hooks.delivered = <<"SIGTERM", "SIGINT", "SIGTERM">>
  /\ hooks.killFailed
  /\ hooks.removes = 1
  /\ hooks.exitCode = 1

\* a signal after the disposer ran, and nothing started
C29_WitnessDisposed ==
  /\ ~hooks.listening
  /\ hooks.unheard = 2
  /\ hooks.delivered = <<>>
  /\ hooks.kills = 0

\* C30: every tab connectToRemoteChrome creates for targetUrl is handed back
\* as targetId, so that closeRemoteChromeTarget can close it; a connection
\* that fell back to the first target (no targetId) leaves no tab of its own
\* open; closeRemoteChromeTarget with an undefined targetId closes nothing
\* and does not throw.
C30_TabOwnership ==
  /\ []((remote.pc = "connected" /\ remote.created) => remote.targetId = "created")
  /\ []((remote.pc \in {"connected", "rejected"} /\ remote.targetId = "undefined")
          => ~remote.createdOpen)
  /\ [][(remote.pc = "connected" /\ remote.targetId = "undefined")
          => /\ remote'.pc = "closed"
             /\ remote'.closeCalls = remote.closeCalls
             /\ remote'.createdOpen = remote.createdOpen
             /\ remote'.log = remote.log]_vars

\* C31: runStealth does not close a browser context it attached to over CDP
\* and does not close the browser under keepBrowser; it does not delete a
\* profile directory the caller supplied: the one directory it removes is the
\* temporary one it created, and only after the browser context was closed.
C31_ClosesOnlyItsOwn ==
  /\ [](/\ browser = "closed" => ~options.config.keepBrowser
        /\ options.config.keepBrowser => Count(events, "close") = 0
        /\ Count(events, "attach") = 1 => (browser = "attached" /\ Count(events, "close") = 0)
        /\ options.config.chromeProfilePath
             => (tempProfile = "none" /\ Count(events, "rm") = 0
                 /\ Count(events, "mkdtemp") = 0)
        /\ tempProfile = "removed"
             => (browser = "closed" /\ Count(events, "mkdtemp") = 1)
        /\ Count(events, "rm") <= 1
        /\ \A i \in 1..Len(events) :
             events[i] = "rm" => (i > 1 /\ events[i - 1] = "close"))
  /\ [][browser' # browser
          => \/ (browser = "none" /\ browser' \in {"launched", "attached"})
             \/ (browser = "launched" /\ browser' = "closed")]_vars
  /\ [][tempProfile' # tempProfile
          => \/ (tempProfile = "none" /\ tempProfile' = "exists")
             \/ (tempProfile = "exists" /\ tempProfile' = "removed"
                 /\ browser' = "closed")]_vars

\* a run that returned and left the context it attached to open
C31_Witness ==
  /\ pc = "done"
  /\ result.returned
  /\ browser = "attached"
  /\ ~options.config.keepBrowser
  /\ tempProfile = "exists"

\* a run that closed its own browser and then removed its own directory
C31_WitnessRemoved ==
  /\ pc = "done"
  /\ browser = "closed"
  /\ tempProfile = "removed"

\* a run on the caller's profile that closed its browser and removed nothing
C31_WitnessCallerProfile ==
  /\ pc = "done"
  /\ browser = "closed"
  /\ options.config.chromeProfilePath
  /\ Count(events, "rm") = 0

====
